---- MODULE Spec2Model ----
(***************************************************************************)
(* yao-mcp: the vault's path resolution (Vault::resolve_path_from_vault_   *)
(* root), the note operations built on it (Vault::read_note / write_note / *)
(* modify_note) and the MCP tool handlers in front of them                 *)
(* (ObsidianMCP::read_note / write_note / modify_note).                    *)
(*                                                                         *)
(* A requested path string is a record [abs, segs]: abs says that the      *)
(* string starts with "/", segs are its "/"-separated segments, so that    *)
(* "" is [abs |-> FALSE, segs |-> <<>>] and "/./f" is                      *)
(* [abs |-> TRUE, segs |-> <<".", "f">>].  A file system path is the       *)
(* sequence of its names from the root.  A file's content is a sequence of *)
(* characters.                                                             *)
(*                                                                         *)
(* The two path libraries the resolver calls (path_trav::is_path_trav and  *)
(* path_absolutize::absolutize_virtually, the latter on top of             *)
(* path_dedot::parse_dot) are modelled by what they compute: is_path_trav  *)
(* canonicalizes its argument as the operating system does, that is        *)
(* against the process's working directory; parse_dot replaces a leading   *)
(* "." or ".." by the working directory or its parent.                     *)
(***************************************************************************)
EXTENDS Integers, Sequences, FiniteSets

\* Longest requested path, in segments.
MaxSegs == 3

\* ------------------------------------------------------------------ world

Names == {"s", "f"}
Segs == Names \cup {".", ".."}

\* Requested path strings.
PathStrings == [abs : BOOLEAN, segs : UNION {[1..n -> Segs] : n \in 0..MaxSegs}]

\* The paths a user of the library calls the vault with: the empty one, and
\* those of should_resolve_path_from_vault_root.
LibPathStrings ==
  { [abs |-> FALSE, segs |-> <<>>], [abs |-> FALSE, segs |-> <<"s", "f">>],
    [abs |-> TRUE, segs |-> <<"s", "f">>],
    [abs |-> FALSE, segs |-> <<".", "..", "f">>],
    [abs |-> FALSE, segs |-> <<"..", "f">>] }

\* The requests of the concurrent specification: one note by its relative
\* and its absolute name, and the vault's root.
ConcPathStrings ==
  { [abs |-> FALSE, segs |-> <<"f">>], [abs |-> TRUE, segs |-> <<"f">>],
    [abs |-> TRUE, segs |-> <<>>] }

\* Note contents, of two lengths.
Contents == { <<"x">>, <<"y", "y">> }
SeqContents == { <<"x">> }

Root == <<>>
\* vault_path: absolute and canonical (main.rs canonicalizes it at startup).
VaultPath == <<"r", "v">>
\* The directories on disk (the program creates none).
Dirs == { <<>>, <<"r">>, <<"r", "v">>, <<"r", "v", "s">> }
\* One symbolic link inside the vault, to a file beside the vault.
LinkAt == <<"r", "v", "s", "f">>
LinkTarget == <<"r", "f">>
\* The directories the server is started in.
WorkingDirs == { <<>>, <<"r">>, <<"r", "v">>, <<"r", "v", "s">> }
\* Where a regular file may exist: the names a write can create.
FileSlots == { <<"r", "f">>, <<"r", "v", "f">>, <<"r", "v", "s", "s">> }
Absent == [exists |-> FALSE, data |-> <<>>]
File(data) == [exists |-> TRUE, data |-> data]

IsPrefix(p, q) == Len(p) <= Len(q) /\ SubSeq(q, 1, Len(p)) = p
Parent(p) == IF p = <<>> THEN <<>> ELSE SubSeq(p, 1, Len(p) - 1)
Ok(v) == [ok |-> TRUE, val |-> v]
Err(e) == [ok |-> FALSE, err |-> e]

\* ------------------------------------------------- the operating system

\* Where a name in directory dir leads: through the symbolic link, if it is one.
Child(dir, name) ==
  LET child == Append(dir, name) IN IF child = LinkAt THEN LinkTarget ELSE child

Exists(p, fs) == p \in Dirs \/ (p \in FileSlots /\ fs[p].exists)

\* The kernel's walk from the existing object cur along segs.
RECURSIVE Walk(_, _, _)
Walk(cur, segs, fs) ==
  IF segs = <<>> THEN Ok(cur)
  ELSE IF cur \notin Dirs THEN Err("NotADirectory")
  ELSE IF Head(segs) = "." THEN Walk(cur, Tail(segs), fs)
  ELSE IF Head(segs) = ".." THEN Walk(Parent(cur), Tail(segs), fs)
  ELSE IF Exists(Child(cur, Head(segs)), fs)
       THEN Walk(Child(cur, Head(segs)), Tail(segs), fs)
       ELSE Err("NotFound")

\* std::path::Path::canonicalize (realpath): a relative path starts at the
\* working directory, every component must exist, "" does not.
Canonicalize(p, cwd, fs) ==
  IF ~p.abs /\ p.segs = <<>> THEN Err("NotFound")
  ELSE Walk(IF p.abs THEN Root ELSE cwd, p.segs, fs)

\* open(2) of the absolute path r with O_CREAT: the slot it opens or creates.
OpenForWrite(r, fs) ==
  IF r = <<>> THEN Err("IsADirectory")
  ELSE LET dir == Walk(Root, Parent(r), fs) IN
       IF ~dir.ok THEN dir
       ELSE IF dir.val \notin Dirs THEN Err("NotADirectory")
       ELSE LET target == Child(dir.val, r[Len(r)]) IN
            IF target \in Dirs THEN Err("IsADirectory")
            ELSE IF target \in FileSlots THEN Ok(target)
            ELSE Err("NotFound")

\* open(2) and read of the absolute path r: the slot read.
OpenForRead(r, fs) ==
  LET at == Walk(Root, r, fs) IN
  IF ~at.ok THEN at
  ELSE IF at.val \in Dirs THEN Err("IsADirectory")
  ELSE Ok(at.val)

\* ------------------------------------------------------ std::path::Path

\* Path::components: the root, then the segments without "." except a
\* leading one of a relative path.
Components(p) ==
  LET NotDot(x) == x # "." IN
  IF p.abs THEN <<"/">> \o SelectSeq(p.segs, NotDot)
  ELSE IF p.segs # <<>> /\ Head(p.segs) = "."
       THEN <<".">> \o SelectSeq(Tail(p.segs), NotDot)
       ELSE SelectSeq(p.segs, NotDot)

IsAbsolute(p) == p.abs

RECURSIVE TrimLeft(_)
TrimLeft(segs) ==
  IF segs # <<>> /\ Head(segs) = "." THEN TrimLeft(Tail(segs)) ELSE segs

\* components.next(); components.as_path(): the path after its root.
StripRoot(p) == [abs |-> FALSE, segs |-> TrimLeft(p.segs)]

\* ------------------------------------------------------------ libraries

\* path_dedot::parse_dot: the tokens left of comps, the first one handled.
RECURSIVE DedotRest(_, _)
DedotRest(toks, comps) ==
  IF comps = <<>> THEN toks
  ELSE IF Head(comps) = "." THEN DedotRest(toks, Tail(comps))
  ELSE IF Head(comps) = ".."
       THEN DedotRest(IF toks = <<>> THEN toks ELSE Parent(toks), Tail(comps))
       ELSE DedotRest(Append(toks, Head(comps)), Tail(comps))

\* path_dedot::parse_dot: [abs, toks], the path without dots.
ParseDot(p, cwd) ==
  LET comps == Components(p) IN
  IF comps = <<>> THEN [abs |-> FALSE, toks |-> <<>>]
  ELSE IF Head(comps) = "/"
       THEN [abs |-> TRUE, toks |-> DedotRest(<<>>, Tail(comps))]
  ELSE IF Head(comps) = "."
       THEN [abs |-> TRUE, toks |-> DedotRest(cwd, Tail(comps))]
  ELSE IF Head(comps) = ".."
       THEN [abs |-> TRUE, toks |-> DedotRest(Parent(cwd), Tail(comps))]
  ELSE [abs |-> FALSE, toks |-> DedotRest(<<Head(comps)>>, Tail(comps))]

AbsolutizeNoCheck(p, root, cwd) ==
  LET d == ParseDot(p, cwd) IN
  IF d.abs THEN Ok(d.toks) ELSE Ok(root \o d.toks)

\* path_absolutize::absolutize_virtually.
AbsolutizeVirtually(p, root, cwd) ==
  LET d == ParseDot(p, cwd) IN
  IF d.abs
  THEN IF IsPrefix(root, d.toks) THEN Ok(d.toks) ELSE Err("InvalidInput")
  ELSE Ok(root \o d.toks)

\* path_trav::is_path_trav: Ok(true) when rel, canonicalized, is not under
\* base, canonicalized.
IsPathTrav(base, rel, cwd, fs) ==
  LET r == Canonicalize(rel, cwd, fs) IN
  IF ~r.ok THEN r ELSE Ok(~IsPrefix(base, r.val))

\* ---------------------------------------------------------- VaultError

IoError(kind) == [variant |-> "IoError", kind |-> kind]
\* VaultError::invalid_path(format!("Invalid path {:?}: {:?}", path, err))
InvalidPath(path, err) ==
  [variant |-> "InvalidPath",
   reason |-> <<"Invalid path ", path, ": ", err>>]
\* VaultError::invalid_path_traversal(path)
InvalidPathTraversal(path) ==
  [variant |-> "InvalidPath",
   reason |-> <<"Invalid Path: path traversal detected: ", path>>]

\* impl Display for VaultError
DisplayFmt(e) ==
  IF e.variant = "IoError" THEN <<"IO error: ", e.kind>>
  ELSE <<"Invalid path: ", e.reason>>

\* ------------------------------------------------------------ the vault

\* Vault::resolve_path_from_vault_root
ResolvePathFromVaultRoot(path, cwd, fs) ==
  LET normalized_path == IF IsAbsolute(path) THEN StripRoot(path) ELSE path
      probe == IsPathTrav(VaultPath, normalized_path, cwd, fs)
  IN IF probe.ok /\ probe.val THEN Err(InvalidPathTraversal(path))
     ELSE IF probe.ok \/ probe.err = "NotFound"
     THEN LET resolved == AbsolutizeVirtually(normalized_path, VaultPath, cwd) IN
          IF resolved.ok THEN Ok(resolved.val)
          ELSE Err(InvalidPath(path, <<"Kind", resolved.err>>))
     ELSE Err(InvalidPath(path, probe.err))

\* ------------------------------------------------------ the tool layer

NeverEmpty(path) == FALSE

\* String::is_empty on the requested path
PathIsEmpty(path) == ~path.abs /\ path.segs = <<>>

\* McpError::invalid_request / McpError::internal_error
InvalidRequest(message) == [code |-> "invalid_request", message |-> message]
InternalError(message) == [code |-> "internal_error", message |-> message]

\* ToolError::path_not_found
PathNotFound == InvalidRequest("path cannot be empty")

\* The match on the vault's result that ends each tool handler:
\* CallToolResult::success with the note or the handler's text, or
\* internal_error with the error's text.
ToolResult(op, vres) ==
  IF ~vres.ok THEN Err(InternalError(DisplayFmt(vres.err)))
  ELSE IF op = "read" THEN Ok(vres.val)
  ELSE IF op = "write" THEN Ok(<<"Note written successfully">>)
  ELSE Ok(<<"Note modified successfully">>)

\* ---------------------------------------------------------------- state

SeqTasks == {1}
ConcTasks == {1, 2}
Tasks == SeqTasks \cup ConcTasks

VARIABLES
  cwd,    \* the process's working directory
  files,  \* the content of each regular file, or Absent
  task,   \* each task's call in progress
  hist    \* per file, the writes that touched it last (history)

vars == <<cwd, files, task, hist>>

EmptyPath == [abs |-> FALSE, segs |-> <<>>]

IdleTask ==
  [pc |-> "idle", layer |-> "none", op |-> "none", path |-> EmptyPath,
   content |-> <<>>, resolved |-> <<>>, slot |-> <<>>, touched |-> FALSE,
   vault |-> <<>>, mcp |-> <<>>, seen |-> {}, wrote |-> <<>>]

NoHist == [st |-> "none", by |-> 0, resolved |-> <<>>, content |-> <<>>]

\* The call's return: the vault's result, and the tool handler's on top of it.
Finish(rec, vres) ==
  [rec EXCEPT !.pc = "done", !.vault = <<vres>>,
              !.mcp = IF rec.layer = "mcp" THEN <<ToolResult(rec.op, vres)>> ELSE <<>>]

\* Vault::read_file / Vault::write_file up to the file operation: resolve,
\* and return the rejection.
VaultBegin(rec) ==
  LET r == ResolvePathFromVaultRoot(rec.path, cwd, files)
      on == [rec EXCEPT !.touched = TRUE]
  IN IF r.ok THEN [on EXCEPT !.pc = "io", !.resolved = <<r.val>>]
     ELSE Finish(on, Err(r.err))

\* A tool handler up to the vault's file operation: the guard on the empty
\* path, then the vault.
ToolBegin(rec) ==
  IF PathIsEmpty(rec.path)
  THEN [rec EXCEPT !.pc = "done", !.mcp = <<Err(PathNotFound)>>]
  ELSE VaultBegin(rec)

Call(layer, op, path, content) ==
  [IdleTask EXCEPT !.layer = layer, !.op = op, !.path = path,
                   !.content = content]

Start(t, rec) ==
  /\ task[t].pc = "idle"
  /\ task' = [task EXCEPT ![t] = rec]
  /\ UNCHANGED <<cwd, files, hist>>

\* ObsidianMCP::read_note
ToolReadNote(t, path) ==
  Start(t, ToolBegin(Call("mcp", "read", path, <<>>)))

\* ObsidianMCP::write_note
ToolWriteNote(t, path, content) ==
  Start(t, ToolBegin(Call("mcp", "write", path, content)))

\* ObsidianMCP::modify_note
ToolModifyNote(t, path, content) ==
  Start(t, ToolBegin(Call("mcp", "modify", path, content)))

\* Vault::read_note, called by a user of the library
VaultReadNote(t, path) ==
  Start(t, VaultBegin(Call("vault", "read", path, <<>>)))

\* Vault::write_note, called by a user of the library
VaultWriteNote(t, path, content) ==
  Start(t, VaultBegin(Call("vault", "write", path, content)))

\* Vault::modify_note, called by a user of the library
VaultModifyNote(t, path, content) ==
  Start(t, VaultBegin(Call("vault", "modify", path, content)))

\* The caller of a write or modify reads the note back: read_note with the
\* path it has just written, through the layer it wrote through.
ReadBack(t) ==
  /\ task[t].pc = "done" /\ task[t].op \in {"write", "modify"}
  /\ LET rec == [Call(task[t].layer, "read", task[t].path, <<>>) EXCEPT
                   !.wrote = <<[content |-> task[t].content,
                                ok |-> task[t].vault # <<>> /\ task[t].vault[1].ok]>>]
     IN task' = [task EXCEPT ![t] =
                   IF rec.layer = "mcp" THEN ToolBegin(rec) ELSE VaultBegin(rec)]
  /\ UNCHANGED <<cwd, files, hist>>

\* The contents this read follows: of the file written last, alone, at the
\* path the read resolved to.
Follows(resolved) ==
  { hist[s].content : s \in { q \in FileSlots :
      hist[q].st = "clean" /\ hist[q].resolved = resolved } }

\* tokio::fs::read_to_string of the resolved path
ReadFile(t) ==
  /\ task[t].pc = "io" /\ task[t].op = "read"
  /\ LET o == OpenForRead(task[t].resolved[1], files)
         rec == [task[t] EXCEPT !.seen = Follows(task[t].resolved[1])]
     IN task' = [task EXCEPT ![t] =
          IF o.ok THEN Finish([rec EXCEPT !.slot = o.val], Ok(files[o.val].data))
          ELSE Finish(rec, Err(IoError(o.err)))]
  /\ UNCHANGED <<cwd, files, hist>>

KeepContent(old) == old

\* What File::create leaves of a file's content (O_TRUNC).
Truncate(old) == <<>>

\* tokio::fs::write of the resolved path, first half: File::create
OpenTruncate(t) ==
  /\ task[t].pc = "io" /\ task[t].op \in {"write", "modify"}
  /\ LET o == OpenForWrite(task[t].resolved[1], files) IN
     IF o.ok
     THEN /\ files' = [files EXCEPT ![o.val] = File(Truncate(@.data))]
          /\ hist' = [hist EXCEPT ![o.val] =
                        [st |-> "pending", by |-> t,
                         resolved |-> task[t].resolved[1], content |-> <<>>]]
          /\ task' = [task EXCEPT ![t].pc = "opened", ![t].slot = o.val]
     ELSE /\ task' = [task EXCEPT ![t] = Finish(@, Err(IoError(o.err)))]
          /\ UNCHANGED <<files, hist>>
  /\ UNCHANGED cwd

AppendTo(old, data) == old \o data

\* write(2) of data at offset 0 of a file holding old.
WriteAt0(old, data) ==
  data \o SubSeq(old, Len(data) + 1, Len(old))

\* tokio::fs::write of the resolved path, second half: write_all
WriteData(t) ==
  /\ task[t].pc = "opened"
  /\ LET s == task[t].slot IN
     /\ files' = [files EXCEPT ![s] = File(WriteAt0(@.data, task[t].content))]
     /\ hist' = [hist EXCEPT ![s] =
          [st |-> IF @.st = "pending" /\ @.by = t THEN "clean" ELSE "dirty",
           by |-> t, resolved |-> task[t].resolved[1],
           content |-> task[t].content]]
  /\ task' = [task EXCEPT ![t] = Finish(@, Ok(<<>>))]
  /\ UNCHANGED cwd

\* The caller takes the result; the task serves the next request.
Return(t) ==
  /\ task[t].pc = "done"
  /\ task' = [task EXCEPT ![t] = IdleTask]
  /\ UNCHANGED <<cwd, files, hist>>

Init ==
  /\ cwd \in WorkingDirs
  /\ files \in { [p \in FileSlots |-> IF p = LinkTarget THEN c ELSE Absent] :
                 c \in {Absent, File(<<"o", "o">>)} }
  /\ task = [t \in Tasks |-> IdleTask]
  /\ hist = [p \in FileSlots |-> NoHist]

\* One task serves one request after the other.
Next ==
  \E t \in SeqTasks :
    \/ \E p \in PathStrings : ToolReadNote(t, p)
    \/ \E p \in PathStrings, c \in SeqContents : ToolWriteNote(t, p, c)
    \/ \E p \in PathStrings, c \in SeqContents : ToolModifyNote(t, p, c)
    \/ \E p \in LibPathStrings : VaultReadNote(t, p)
    \/ \E p \in LibPathStrings, c \in SeqContents : VaultWriteNote(t, p, c)
    \/ \E p \in LibPathStrings, c \in SeqContents : VaultModifyNote(t, p, c)
    \/ ReadBack(t)
    \/ ReadFile(t)
    \/ OpenTruncate(t)
    \/ WriteData(t)
    \/ Return(t)

Spec == Init /\ [][Next]_vars

\* One task per connection (start_http_server): the calls interleave at
\* their file operations.
NextConc ==
  \E t \in ConcTasks :
    \/ \E p \in ConcPathStrings : ToolReadNote(t, p)
    \/ \E p \in ConcPathStrings, c \in Contents : ToolWriteNote(t, p, c)
    \/ \E p \in ConcPathStrings, c \in Contents : ToolModifyNote(t, p, c)
    \/ ReadBack(t)
    \/ ReadFile(t)
    \/ OpenTruncate(t)
    \/ WriteData(t)
    \/ Return(t)

SpecConc == Init /\ [][NextConc]_vars

\* ---------------------------------------------------------------- claims

Active(t) == task[t].pc # "idle"
Resolved(t) == task[t].resolved # <<>>
\* The call ended in the resolver: nothing was written since it resolved.
Rejected(t) ==
  /\ task[t].pc = "done" /\ task[t].vault # <<>>
  /\ ~task[t].vault[1].ok /\ task[t].vault[1].err.variant = "InvalidPath"
\* The state is the one the call of t resolved its path in.
AtResolve(t) == task[t].pc = "io" \/ Rejected(t)
TraversalReason(path) == <<"Invalid Path: path traversal detected: ", path>>
HasDotDot(path) == \E i \in 1..Len(path.segs) : path.segs[i] = ".."
OnlyNames(path) == \A i \in 1..Len(path.segs) : path.segs[i] \in Names
\* Where the vault's root joined with path leads, lexically.
LexTarget(path) == DedotRest(VaultPath, path.segs)
\* The outcome of a resolution: the path, or the kind of the rejection.
Outcome(r) == IF r.ok THEN <<"ok", r.val>> ELSE <<"err", r.err.reason[1]>>

\* C1: whenever a call's path has resolved, the vault's root is a
\* component-wise prefix of the resolved path.
C1_Containment ==
  \A t \in Tasks : Resolved(t) => IsPrefix(VaultPath, task[t].resolved[1])

\* A path with ".." in it, absolute or started with ".", has resolved.
C1_Witness ==
  \E t \in Tasks :
    /\ task[t].pc = "io" /\ HasDotDot(task[t].path)
    /\ task[t].path.abs \/ Head(task[t].path.segs) \in {".", ".."}

\* C2: a relative path that walks through ".." from the vault's root to a
\* file that exists outside the vault is rejected as a traversal, and the
\* rejection carries the requested string as it was given.
C2_ExistingTraversalRejected ==
  \A t \in Tasks :
    LET path == task[t].path
        at == Canonicalize(path, VaultPath, files)
    IN (/\ AtResolve(t) /\ ~path.abs /\ HasDotDot(path)
        /\ at.ok /\ at.val \in FileSlots /\ ~IsPrefix(VaultPath, at.val))
       => /\ Rejected(t)
          /\ task[t].vault[1].err.reason = TraversalReason(path)

\* C3: a relative path that starts with ".." and leads out of the vault's
\* root, to nothing that exists, so that the probe reports NotFound, never
\* resolves: the absolutizer rejects it (InvalidInput).
C3_MissingTraversalRejected ==
  \A t \in Tasks :
    LET path == task[t].path IN
    (/\ AtResolve(t) /\ ~path.abs /\ path.segs # <<>>
     /\ TrimLeft(path.segs) # <<>> /\ Head(TrimLeft(path.segs)) = ".."
     /\ ~IsPrefix(VaultPath, LexTarget(path))
     /\ ~Canonicalize(path, VaultPath, files).ok
     /\ IsPathTrav(VaultPath, path, cwd, files) = Err("NotFound"))
    => /\ Rejected(t)
       /\ task[t].vault[1].err = InvalidPath(path, <<"Kind", "InvalidInput">>)

\* C4: a relative path of names only, whose first directory does not exist
\* under the vault's root, resolves to the root joined with its names.
C4_MissingDirectoriesResolve ==
  \A t \in Tasks :
    LET path == task[t].path IN
    (/\ AtResolve(t) /\ ~path.abs /\ Len(path.segs) >= 2 /\ OnlyNames(path)
     /\ ~Exists(Child(VaultPath, Head(path.segs)), files))
    => /\ task[t].pc = "io"
       /\ task[t].resolved = <<VaultPath \o path.segs>>

\* C5: a relative path and the same path with "/" before it resolve alike:
\* to the same path, or neither.
C5_AbsoluteEquivalence ==
  \A t \in Tasks :
    LET path == task[t].path IN
    (AtResolve(t) /\ ~path.abs)
    => Outcome(ResolvePathFromVaultRoot([path EXCEPT !.abs = TRUE], cwd, files))[1]
         = (IF Resolved(t) THEN "ok" ELSE "err")
       /\ (Resolved(t) =>
             ResolvePathFromVaultRoot([path EXCEPT !.abs = TRUE], cwd, files)
               = Ok(task[t].resolved[1]))

\* C6, as claimed: a write of a path that resolves, then a read of the same
\* path, returns the content written.
C6_RoundTripOfResolvedPath ==
  \A t \in Tasks :
    (/\ task[t].pc = "done" /\ task[t].op = "read" /\ task[t].wrote # <<>>
     /\ task[t].path # EmptyPath)
    => \/ task[t].vault = <<Ok(task[t].wrote[1].content)>>
       \/ Rejected(t)

\* C6, amended: a write that returned Ok, then a read of the same path that
\* resolves, with no other write of the file since the write opened it,
\* returns the content written.
C6_RoundTripOfWrittenPath ==
  \A t \in Tasks :
    (/\ task[t].pc = "done" /\ task[t].op = "read" /\ task[t].wrote # <<>>
     /\ task[t].wrote[1].ok /\ Resolved(t)
     /\ task[t].seen = {task[t].wrote[1].content})
    => task[t].vault = <<Ok(task[t].wrote[1].content)>>

\* A note was written and read back.
C6_Witness ==
  \E t \in Tasks :
    /\ task[t].pc = "done" /\ task[t].op = "read" /\ task[t].wrote # <<>>
    /\ task[t].wrote[1].ok /\ Resolved(t)
    /\ task[t].seen = {task[t].wrote[1].content}
    /\ task[t].vault = <<Ok(<<"x">>)>>

C8_ErrorClasses ==
  \A t \in Tasks :
    (/\ task[t].pc = "done" /\ task[t].layer = "mcp" /\ task[t].vault # <<>>
     /\ ~task[t].vault[1].ok)
    => task[t].mcp[1].err.code =
         (IF task[t].vault[1].err.variant = "InvalidPath"
          THEN "invalid_request" ELSE "internal_error")

\* No write of file s is between its open and its write.
Quiet(s) == \A t \in Tasks : ~(task[t].pc = "opened" /\ task[t].slot = s)
Written(s) == hist[s].st \in {"clean", "dirty"}

C10_WorkingDirectoryIndependent ==
  \A t \in Tasks :
    AtResolve(t) =>
      \A d \in WorkingDirs :
        Outcome(ResolvePathFromVaultRoot(task[t].path, d, files))
          = Outcome(ResolvePathFromVaultRoot(task[t].path, cwd, files))
====
